---- MODULE Spec2Model ----
(***************************************************************************)
(* TensorFleet job orchestrator (src/job-orchestrator/main.py): the job    *)
(* registry kept in Redis, the Celery task queue, the MinIO namespaces and *)
(* the HTTP handlers submit_job, get_job_status, list_jobs and cancel_job. *)
(* Storage service (src/storage): the auto-save endpoint over MongoDB and  *)
(* MinIO, and the orchestrator thread that calls it.                       *)
(* Monitoring service (src/monitoring/main.py): the scaling configuration, *)
(* the scale handlers and the auto-shrink monitor.                         *)
(***************************************************************************)
EXTENDS Integers, Sequences, FiniteSets, TLC

\* ------------------------------------------------------------------ bounds
\* uuid4() values drawn by submit_job
MaxJobs == 2
\* ticks of the wall clock read by datetime.now()
MaxTime == 1
\* auto-save threads started per job
MaxAutoSaves == 2
\* requests the storage service handles at the same time
MaxClients == 2
\* documents inserted into the models collection
MaxModels == 2
\* jobs submitted while the auto-save workflow is followed
MaxLiveJobs == 1
\* the largest worker count a request carries
MaxCount == 3
\* workers reporting to the monitoring service
MaxWorkerIds == 1
\* monitor threads running at the same time
MaxMonitors == 2

JobIds == 1..MaxJobs
TaskIds == 1..MaxJobs
\* a hash field that was never written
NoTime == -1

VARIABLES
    registry,    \* Redis: job id -> hash of the job:<id> key
    tasks,       \* Celery: task id -> state of the task
    revoked,     \* Celery: task ids control.revoke was called for
    buckets,     \* MinIO: buckets made, <<kind, job id>>
    autoSaves,   \* job id -> auto_save_model threads started
    nextJob,     \* uuid4() values drawn for job ids
    nextTask,    \* task ids handed out by send_task
    now,         \* wall clock
    resp,        \* the last request: its body, its response, and the task
                 \* ids whose AsyncResult state the handler read
    models,      \* MongoDB: documents of the models collection
    objects,     \* MinIO: objects of the models bucket, <<job id, stamp>>
    nextModel,   \* ObjectIds handed out by insert_one
    calls,       \* storage: request slot -> the auto-save call it handles
    sresp,       \* storage: the last response of the auto-save endpoint
    listErrors,  \* storage log: "Error listing models" was written
    threads,     \* job id -> auto_save_model threads ended, last line printed
    scaling_config,  \* monitoring: the scaling_config dictionary
    workers_data,    \* monitoring: worker id -> entry of workers_data
    monitors,        \* monitoring: monitor_and_shrink threads running
    mresp,           \* monitoring: the last request and its response, or the
                     \* last command of a monitor thread
    running          \* monitoring: the scale commands subprocess.run is
                     \* executing, each with the thread that waits for it

orchVars == <<registry, tasks, revoked, buckets, autoSaves, nextJob, nextTask,
              now, resp>>
storageVars ==
    <<models, objects, nextModel, calls, sresp, listErrors, threads>>
monVars == <<scaling_config, workers_data, monitors, mresp, running>>
vars == <<orchVars, storageVars, monVars>>

\* ------------------------------------------------------------ submit_job
\* seeded fault: the list in another order
required_fields_reordered == <<"dataset_path", "model_type", "job_name">>

required_fields == <<"model_type", "dataset_path", "job_name">>
required_hyperparams == <<"learning_rate", "batch_size", "optimizer">>

\* a request body: the keys of job_data and the keys of its hyperparameters
\* (hyperparameters are given when the body has all four keys: the handler
\* returns before it reads them otherwise)
Requests ==
    { r \in [fields : SUBSET {"model_type", "dataset_path", "job_name",
                              "hyperparameters"},
             hyper : SUBSET {"learning_rate", "batch_size", "optimizer"}] :
        r.hyper # {} => r.fields = {"model_type", "dataset_path", "job_name",
                                    "hyperparameters"} }

RECURSIVE FirstMissing(_, _)
\* the first element of the list that is no key of the mapping, "" when none
FirstMissing(list, keys) ==
    IF list = <<>> THEN ""
    ELSE IF Head(list) \notin keys THEN Head(list)
    ELSE FirstMissing(Tail(list), keys)

\* the 400 response's error message, "" when the body passes validation
ValidationError(req) ==
    LET field == FirstMissing(required_fields, req.fields)
        param == FirstMissing(required_hyperparams, req.hyper)
    IN  IF field # "" THEN "Missing required field: " \o field
        ELSE IF "hyperparameters" \notin req.fields THEN "Missing hyperparameters"
        ELSE IF param # "" THEN "Missing hyperparameter: " \o param
        ELSE ""

NoJobs == <<>>
NoBody == [fields |-> {}, hyper |-> {}]

Response(op, code, job_id, status, error) ==
    [op |-> op, body |-> NoBody, code |-> code, job_id |-> job_id,
     status |-> status, error |-> error, completed_at |-> NoTime,
     failed_at |-> NoTime, jobs |-> NoJobs, total |-> 0, queried |-> {}]

\* the hash hmset writes for a new job
job_metadata(task_id) ==
    [task_id |-> task_id, status |-> "QUEUED", created_at |-> now,
     completed_at |-> NoTime, failed_at |-> NoTime, cancelled_at |-> NoTime]

\* what can go wrong after validation: a bucket call raising S3Error,
\* send_task raising, hmset raising
Failures == {"none", "models", "checkpoints", "enqueue", "registry"}

SubmitInvalid(req) ==
    /\ ValidationError(req) # ""
    /\ resp' = [Response("submit", 400, 0, "", ValidationError(req))
                  EXCEPT !.body = req]
    /\ UNCHANGED <<registry, tasks, revoked, buckets, autoSaves,
                   nextJob, nextTask, now>>
    /\ UNCHANGED <<storageVars, monVars>>

\* seeded fault: the second bucket is made outside the try block and its
\* error is lost
EnqueuesAfterCheckpointError(fail) == fail \notin {"models", "enqueue"}

\* whether submit_job gets past the bucket calls and send_task returns
Enqueues(fail) == fail \notin {"models", "checkpoints", "enqueue"}

\* whether submit_job gets as far as hmset and hmset returns
Persists(fail) == fail = "none"

SubmitValid(req, fail) ==
    /\ ValidationError(req) = ""
    /\ nextJob < MaxJobs
    /\ LET job_id == nextJob + 1
           task_id == nextTask + 1
       IN  /\ nextJob' = job_id
           /\ buckets' =
                CASE fail = "models" -> buckets
                  [] fail = "checkpoints" -> buckets \cup {<<"models", job_id>>}
                  [] OTHER -> buckets \cup {<<"models", job_id>>,
                                            <<"checkpoints", job_id>>}
           /\ IF Enqueues(fail)
              THEN /\ nextTask' = task_id
                   /\ tasks' = [t \in DOMAIN tasks \cup {task_id} |->
                                  IF t = task_id THEN "PENDING" ELSE tasks[t]]
              ELSE UNCHANGED <<tasks, nextTask>>
           /\ IF Persists(fail)
              THEN registry' = [j \in DOMAIN registry \cup {job_id} |->
                                  IF j = job_id THEN job_metadata(task_id)
                                  ELSE registry[j]]
              ELSE UNCHANGED registry
           /\ resp' =
                [(CASE fail = "none" -> Response("submit", 202, job_id, "QUEUED", "")
                    [] fail \in {"models", "checkpoints"} ->
                         Response("submit", 500, 0, "", "Failed to create storage buckets")
                    [] OTHER -> Response("submit", 500, 0, "", "Internal Server Error"))
                   EXCEPT !.body = req]
    /\ UNCHANGED <<revoked, autoSaves, now>>
    /\ UNCHANGED <<storageVars, monVars>>

\* submit_job on one request body
SubmitRequest(req) ==
    \/ SubmitInvalid(req)
    \/ \E fail \in Failures : SubmitValid(req, fail)

Submit ==
    \E req \in Requests : SubmitRequest(req)

\* ------------------------------------------------------ the Celery tasks
\* a worker picks the task up (worker.train_model: update_state STARTED)
TaskStart(t) ==
    /\ t \in DOMAIN tasks
    /\ tasks[t] = "PENDING"
    /\ tasks' = [tasks EXCEPT ![t] = "STARTED"]
    /\ UNCHANGED <<registry, revoked, buckets, autoSaves, nextJob,
                   nextTask, now, resp>>
    /\ UNCHANGED <<storageVars, monVars>>

\* the running task returns or raises
TaskEnd(t, state) ==
    /\ t \in DOMAIN tasks
    /\ tasks[t] = "STARTED"
    /\ state \in {"SUCCESS", "FAILURE"}
    /\ tasks' = [tasks EXCEPT ![t] = state]
    /\ UNCHANGED <<registry, revoked, buckets, autoSaves, nextJob,
                   nextTask, now, resp>>
    /\ UNCHANGED <<storageVars, monVars>>

\* a revoke reaches the worker before the task has finished
TaskRevoked(t) ==
    /\ t \in revoked
    /\ tasks[t] \in {"PENDING", "STARTED"}
    /\ tasks' = [tasks EXCEPT ![t] = "REVOKED"]
    /\ UNCHANGED <<registry, revoked, buckets, autoSaves, nextJob,
                   nextTask, now, resp>>
    /\ UNCHANGED <<storageVars, monVars>>

\* -------------------------------------------------------- get_job_status
\* whether the handler starts the auto_save_model thread: the test is made
\* on job_info['status'], which line 142 has just set to the queue's state
StartsAutoSave(current_status) ==
    LET status == current_status
    IN  current_status = "SUCCESS" /\ status # "COMPLETED"

\* seeded fault: PENDING is passed through like the other states
ReconciledStatusVerbatim(current_status) ==
    IF current_status = "SUCCESS" THEN "COMPLETED" ELSE current_status

\* job_info['status'] at the end of the handler
ReconciledStatus(current_status) ==
    IF current_status = "SUCCESS"
    THEN IF StartsAutoSave(current_status) THEN "COMPLETED" ELSE current_status
    ELSE IF current_status = "FAILURE" THEN current_status
    ELSE IF current_status = "PENDING" THEN "QUEUED"
    ELSE current_status

\* the fields of job_info that hset writes back to the job's hash
WriteBack(job_info, status) ==
    [job_info EXCEPT !.status = status]

GetStatusNotFound(job_id) ==
    /\ job_id \notin DOMAIN registry
    /\ resp' = Response("getStatus", 404, job_id, "", "Job not found")
    /\ UNCHANGED <<registry, tasks, revoked, buckets, autoSaves,
                   nextJob, nextTask, now>>
    /\ UNCHANGED <<storageVars, monVars>>

GetStatusFound(job_id) ==
    /\ job_id \in DOMAIN registry
    /\ LET job_info == registry[job_id]
           current_status == tasks[job_info.task_id]
           status == ReconciledStatus(current_status)
       IN  /\ StartsAutoSave(current_status) => autoSaves[job_id] < MaxAutoSaves
           /\ autoSaves' = [autoSaves EXCEPT ![job_id] =
                              IF StartsAutoSave(current_status) THEN @ + 1 ELSE @]
           /\ registry' = [registry EXCEPT ![job_id] = WriteBack(job_info, status)]
           /\ resp' = [Response("getStatus", 200, job_id, status,
                                IF current_status = "FAILURE" THEN "task error" ELSE "")
                         EXCEPT !.completed_at =
                                    IF current_status = "SUCCESS" THEN now
                                    ELSE job_info.completed_at,
                                !.failed_at =
                                    IF current_status = "FAILURE" THEN now
                                    ELSE job_info.failed_at,
                                !.queried = {job_info.task_id}]
    /\ UNCHANGED <<tasks, revoked, buckets, nextJob, nextTask, now>>
    /\ UNCHANGED <<storageVars, monVars>>

GetStatus(job_id) ==
    \/ GetStatusNotFound(job_id)
    \/ GetStatusFound(job_id)

\* ------------------------------------------------------------- list_jobs
\* redis keys('job:*'): the job ids in an order Redis chooses
KeyOrders ==
    { order \in [1..Cardinality(DOMAIN registry) -> DOMAIN registry] :
        \A a, b \in DOMAIN order : a # b => order[a] # order[b] }

\* the status list_jobs reports for a job
ListedStatus(job_info) ==
    IF tasks[job_info.task_id] # "PENDING" THEN tasks[job_info.task_id]
    ELSE "QUEUED"

formatted_job(job_id) ==
    [job_id |-> job_id, status |-> ListedStatus(registry[job_id]),
     created_at |-> registry[job_id].created_at]

\* seeded fault: reverse=True forgotten
SortsBeforeAscending(a, b) == a.created_at <= b.created_at

\* whether job a stays in front of job b under
\* sort(key=created_at, reverse=True)
SortsBefore(a, b) == a.created_at >= b.created_at

RECURSIVE Insert(_, _)
\* job put into a sorted list, behind the jobs that sort before it
Insert(jobs, job) ==
    IF jobs = <<>> THEN <<job>>
    ELSE IF SortsBefore(Head(jobs), job) THEN <<Head(jobs)>> \o Insert(Tail(jobs), job)
    ELSE <<job>> \o jobs

RECURSIVE SortJobs(_)
\* list.sort: stable, so jobs with equal keys keep their order
SortJobs(jobs) ==
    IF jobs = <<>> THEN <<>>
    ELSE Insert(SortJobs(SubSeq(jobs, 1, Len(jobs) - 1)), jobs[Len(jobs)])

ListJobs(job_keys) ==
    /\ LET jobs == SortJobs([i \in DOMAIN job_keys |-> formatted_job(job_keys[i])])
       IN  resp' = [Response("listJobs", 200, 0, "", "")
                      EXCEPT !.jobs = jobs, !.total = Len(jobs),
                             !.queried = {registry[j].task_id : j \in DOMAIN registry}]
    /\ UNCHANGED <<registry, tasks, revoked, buckets, autoSaves, nextJob,
                   nextTask, now>>
    /\ UNCHANGED <<storageVars, monVars>>

\* ------------------------------------------------------------ cancel_job
\* seeded fault: the revoke is issued before the record is looked up
CancelNotFoundRevokes(job_id) ==
    /\ job_id \notin DOMAIN registry
    /\ revoked' = revoked \cup {job_id}
    /\ resp' = Response("cancel", 404, job_id, "", "Job not found")
    /\ UNCHANGED <<registry, tasks, buckets, autoSaves, nextJob, nextTask, now>>
    /\ UNCHANGED <<storageVars, monVars>>

CancelNotFound(job_id) ==
    /\ job_id \notin DOMAIN registry
    /\ resp' = Response("cancel", 404, job_id, "", "Job not found")
    /\ UNCHANGED <<registry, tasks, revoked, buckets, autoSaves,
                   nextJob, nextTask, now>>
    /\ UNCHANGED <<storageVars, monVars>>

\* the two hset calls of cancel_job
\* seeded fault: a job stored as COMPLETED or FAILED is left as it is
CancelWriteIfRunning(job_info) ==
    IF job_info.status \in {"COMPLETED", "FAILED"} THEN job_info
    ELSE [job_info EXCEPT !.status = "CANCELLED", !.cancelled_at = now]

CancelWrite(job_info) ==
    [job_info EXCEPT !.status = "CANCELLED", !.cancelled_at = now]

CancelFound(job_id) ==
    /\ job_id \in DOMAIN registry
    /\ revoked' = revoked \cup {registry[job_id].task_id}
    /\ registry' = [registry EXCEPT ![job_id] = CancelWrite(registry[job_id])]
    /\ resp' = Response("cancel", 200, job_id, "CANCELLED", "")
    /\ UNCHANGED <<tasks, buckets, autoSaves, nextJob, nextTask, now>>
    /\ UNCHANGED <<storageVars, monVars>>

Cancel(job_id) ==
    \/ CancelNotFound(job_id)
    \/ CancelFound(job_id)

\* ------------------------------------------------------------ the clock
Tick ==
    /\ now < MaxTime
    /\ now' = now + 1
    /\ UNCHANGED <<registry, tasks, revoked, buckets, autoSaves,
                   nextJob, nextTask, resp>>
    /\ UNCHANGED <<storageVars, monVars>>

\* ------------------------------------------- storage: auto-save endpoint
Clients == 1..MaxClients

\* the JSON body of an auto-save request: the keys it has, and the values
\* of job_id and status (0 and "" stand for None, what .get returns for a
\* key that is absent)
JobData ==
    { d \in [keys : SUBSET {"job_id", "status"},
             job_id : JobIds \cup {0},
             status : {"", "COMPLETED", "RUNNING"}] :
        /\ ("job_id" \in d.keys) <=> (d.job_id # 0)
        /\ ("status" \in d.keys) <=> (d.status # "") }

\* the checks on the body, in the order of the handler
AutoSaveError(job_id, job_data) ==
    IF job_data.keys = {} THEN "Job data is required"
    ELSE IF job_data.job_id # job_id THEN "Job ID mismatch"
    ELSE IF job_data.status # "COMPLETED"
         THEN "Job must be completed to save model"
    ELSE ""

\* what the query of list_models can meet: the handler runs it for a body
\* it accepts
Mongo(job_id, job_data) ==
    IF AutoSaveError(job_id, job_data) = "" THEN {"up", "down"} ELSE {"up"}

\* find({"job_id": job_id})
find(job_id) == { m \in models : m.job_id = job_id }

\* seeded fault: the lookup is not filtered by job_id
list_models_of_any_job(job_id, mongo) ==
    IF mongo = "down" THEN {}
    ELSE { m \in models : \A n \in models : n.created_at <= m.created_at }

\* list_models(job_id, limit=1): the documents that can head the list sorted
\* by created_at descending (documents of one stamp come in either order);
\* an error of the query is logged and read as "no document"
list_models(job_id, mongo) ==
    IF mongo = "down" THEN {}
    ELSE { m \in find(job_id) :
             \A n \in find(job_id) : n.created_at <= m.created_at }

\* a slot that handles no request
NoCall == [pc |-> "idle", job_id |-> 0, thread |-> FALSE]

SResponse(job_id, code, model_id, error) ==
    [job_id |-> job_id, code |-> code, model_id |-> model_id, error |-> error]

\* the line auto_save_model prints for a response
Printed(code) ==
    IF code = 201 THEN "saved"
    ELSE IF code = 200 THEN "exists"
    ELSE "failed"

\* the handler returns: the slot is free again and, when an auto_save_model
\* thread made the request, the thread prints its line and ends
Reply(c, job_id, thread, code, model_id, error) ==
    /\ calls' = [calls EXCEPT ![c] = NoCall]
    /\ sresp' = SResponse(job_id, code, model_id, error)
    /\ threads' = IF thread
                  THEN [threads EXCEPT ![job_id] =
                           [done |-> @.done + 1, printed |-> Printed(code)]]
                  ELSE threads

\* auto_save_model_endpoint up to the existence check
AutoSaveEndpoint(c, job_id, job_data, thread, mongo) ==
    /\ calls[c].pc = "idle"
    /\ LET error == AutoSaveError(job_id, job_data)
           existing_models == list_models(job_id, mongo)
       IN  /\ IF error # ""
              THEN Reply(c, job_id, thread, 400, 0, error)
              ELSE IF existing_models # {}
              THEN \E m \in existing_models :
                       Reply(c, job_id, thread, 200, m.id, "")
              ELSE /\ calls' = [calls EXCEPT ![c] =
                                   [pc |-> "saving", job_id |-> job_id,
                                    thread |-> thread]]
                   /\ UNCHANGED <<sresp, threads>>
           /\ listErrors' = (listErrors \/ (error = "" /\ mongo = "down"))
    /\ UNCHANGED <<models, objects, nextModel>>

model_doc(job_id) ==
    [id |-> nextModel + 1, job_id |-> job_id, created_at |-> now]

\* auto_save_model_endpoint from save_model on: put_object, then insert_one;
\* an exception of either ends the handler with 500
SaveModel(c, fault) ==
    /\ calls[c].pc = "saving"
    /\ fault = "none" => nextModel < MaxModels
    /\ objects' = IF fault = "minio" THEN objects
                  ELSE objects \cup {<<calls[c].job_id, now>>}
    /\ IF fault = "none"
       THEN /\ models' = models \cup {model_doc(calls[c].job_id)}
            /\ nextModel' = nextModel + 1
            /\ Reply(c, calls[c].job_id, calls[c].thread, 201,
                     nextModel + 1, "")
       ELSE /\ UNCHANGED <<models, nextModel>>
            /\ Reply(c, calls[c].job_id, calls[c].thread, 500, 0,
                     "storage error")
    /\ UNCHANGED listErrors
    /\ UNCHANGED <<orchVars, monVars>>

\* a client of the storage service posts to the endpoint
ClientPost(c, job_id, job_data, mongo) ==
    /\ AutoSaveEndpoint(c, job_id, job_data, FALSE, mongo)
    /\ UNCHANGED <<orchVars, monVars>>

\* ------------------------------------- orchestrator: auto_save_model thread
\* json={} of requests.post
EmptyBody == [keys |-> {}, job_id |-> 0, status |-> ""]

\* threads of the job that were started and have not posted yet
Waiting(job_id) ==
    autoSaves[job_id] - threads[job_id].done
      - Cardinality({ c \in Clients :
                        /\ calls[c].pc = "saving"
                        /\ calls[c].thread
                        /\ calls[c].job_id = job_id })

\* the thread posts and the storage service handles the request
AutoSavePosted(job_id) ==
    /\ Waiting(job_id) > 0
    /\ \E c \in Clients, mongo \in Mongo(job_id, EmptyBody) :
           AutoSaveEndpoint(c, job_id, EmptyBody, TRUE, mongo)
    /\ UNCHANGED <<orchVars, monVars>>

\* seeded fault: the exception reaches the status query
AutoSaveRaisedFailsQuery(job_id) ==
    /\ Waiting(job_id) > 0
    /\ threads' = [threads EXCEPT ![job_id] =
                      [done |-> @.done + 1, printed |-> "raised"]]
    /\ resp' = Response("getStatus", 500, job_id, "", "Internal Server Error")
    /\ UNCHANGED <<models, objects, nextModel, calls, sresp, listErrors>>
    /\ UNCHANGED <<registry, tasks, revoked, buckets, autoSaves, nextJob,
                   nextTask, now>>
    /\ UNCHANGED monVars

\* requests.post raises (connection refused, or no answer in 30 seconds):
\* the exception is printed and the thread ends
AutoSaveRaised(job_id) ==
    /\ Waiting(job_id) > 0
    /\ threads' = [threads EXCEPT ![job_id] =
                      [done |-> @.done + 1, printed |-> "raised"]]
    /\ UNCHANGED <<models, objects, nextModel, calls, sresp, listErrors>>
    /\ UNCHANGED <<orchVars, monVars>>

auto_save_model(job_id) ==
    \/ AutoSavePosted(job_id)
    \/ AutoSaveRaised(job_id)

\* --------------------------------------------- monitoring: scaling_config
\* the dictionary the module starts with; the thresholds in tenths
InitialConfig ==
    [current_workers |-> 3, desired_workers |-> 3,
     min_workers |-> 1, max_workers |-> 10,
     auto_scale_enabled |-> TRUE,
     scale_down_threshold |-> 3, scale_up_threshold |-> 8]

\* the worker counts a request can carry
Counts == 0..MaxCount
\* a body without the key worker_count
NoCount == -1
WorkerIds == 1..MaxWorkerIds

\* what subprocess.run does: returns 0, returns another code, or raises
\* (TimeoutExpired or any other exception)
Outcomes == {"ok", "nonzero", "raised"}

\* the response to a request without a JSON body: get_json() aborts the
\* request, or returns None and data.get raises
NoJsonCodes == {400, 415, 500}

MResponse(op, code, error) ==
    [op |-> op, code |-> code, error |-> error, worker_count |-> NoCount,
     target_count |-> NoCount, commands |-> <<>>]

\* seeded fault: a count equal to min_workers is refused
TooFewOrEqual(config, target_count) == target_count <= config.min_workers

TooFew(config, target_count) == target_count < config.min_workers
TooMany(config, target_count) == target_count > config.max_workers

\* scale_workers on a JSON body: the configuration it leaves, its status
\* code, and the counts it ran the scale command with
Scaled(config, worker_count, outcome) ==
    LET target_count == IF worker_count = NoCount THEN config.desired_workers
                        ELSE worker_count
        desired == [config EXCEPT !.desired_workers = target_count]
    IN  IF TooFew(config, target_count)
        THEN [config |-> config, code |-> 400, commands |-> <<>>,
              error |-> "Worker count must be at least min_workers"]
        ELSE IF TooMany(config, target_count)
        THEN [config |-> config, code |-> 400, commands |-> <<>>,
              error |-> "Worker count cannot exceed max_workers"]
        ELSE IF outcome = "ok"
        THEN [config |-> [desired EXCEPT !.current_workers = target_count],
              code |-> 200, commands |-> <<target_count>>, error |-> ""]
        ELSE [config |-> desired, code |-> 500,
              commands |-> <<target_count>>,
              error |-> IF outcome = "nonzero" THEN "Failed to scale workers"
                        ELSE "exception"]

scale_workers(worker_count, outcome) ==
    /\ LET r == Scaled(scaling_config, worker_count, outcome)
       IN  /\ scaling_config' = r.config
           /\ mresp' = [MResponse("scaleTo", r.code, r.error)
                          EXCEPT !.worker_count = worker_count,
                                 !.commands = r.commands]
    /\ UNCHANGED <<workers_data, monitors, running>>
    /\ UNCHANGED <<orchVars, storageVars>>

\* a scale request without a JSON body
NoJson(op, code) ==
    /\ mresp' = MResponse(op, code, "no JSON body")
    /\ UNCHANGED <<scaling_config, workers_data, monitors, running>>
    /\ UNCHANGED <<orchVars, storageVars>>

\* scale_workers_internal drops target_count and calls scale_workers, which
\* reads the body of the request at hand, once for the first element of the
\* tuple and once for the condition; the view's (response, code) tuple has no
\* status_code, so the attribute error ends the request with 500
scale_workers_internal(op, target_count, worker_count, first, second) ==
    /\ LET r1 == Scaled(scaling_config, worker_count, first)
           r2 == Scaled(r1.config, worker_count, second)
       IN  /\ scaling_config' = r2.config
           /\ mresp' = [MResponse(op, 500, "Internal Server Error")
                          EXCEPT !.worker_count = worker_count,
                                 !.target_count = target_count,
                                 !.commands = r1.commands \o r2.commands]
    /\ UNCHANGED <<workers_data, monitors, running>>
    /\ UNCHANGED <<orchVars, storageVars>>

Min(a, b) == IF a < b THEN a ELSE b
Max(a, b) == IF a > b THEN a ELSE b

scale_up_workers(worker_count, first, second) ==
    scale_workers_internal(
        "scaleUp",
        Min(scaling_config.desired_workers + 1, scaling_config.max_workers),
        worker_count, first, second)

scale_down_workers(worker_count, first, second) ==
    scale_workers_internal(
        "scaleDown",
        Max(scaling_config.desired_workers - 1, scaling_config.min_workers),
        worker_count, first, second)

\* the keys of scaling_config a request sets, and a key it does not have
ConfigKeys ==
    {"current_workers", "desired_workers", "min_workers", "max_workers"}

\* update_scaling_config with a body of one key
update_scaling_config(key, value) ==
    /\ scaling_config' =
           IF key \in DOMAIN scaling_config
           THEN [scaling_config EXCEPT ![key] = value]
           ELSE scaling_config
    /\ mresp' = MResponse("updateConfig", 200, "")
    /\ UNCHANGED <<workers_data, monitors, running>>
    /\ UNCHANGED <<orchVars, storageVars>>

\* ------------------------------------------------ monitoring: the monitor
\* the entry of a worker that has just been registered: no updated_at yet
registered(current_time) ==
    [status |-> "ACTIVE", registered_at |-> current_time, updated_at |-> NoTime]

\* update_worker_metrics: the worker is registered ACTIVE when it is new, the
\* body is merged into its entry ("" is a body without status) and the entry
\* is stamped
update_worker_metrics(worker_id, status) ==
    /\ LET worker == IF worker_id \in DOMAIN workers_data
                     THEN workers_data[worker_id]
                     ELSE registered(now)
           merged == IF status = "" THEN worker
                     ELSE [worker EXCEPT !.status = status]
       IN  workers_data' =
               [w \in DOMAIN workers_data \cup {worker_id} |->
                   IF w = worker_id THEN [merged EXCEPT !.updated_at = now]
                   ELSE workers_data[w]]
    /\ mresp' = MResponse("updateWorker", 200, "")
    /\ UNCHANGED <<scaling_config, monitors, running>>
    /\ UNCHANGED <<orchVars, storageVars>>

\* enable_auto_shrink: the flag is set and, when it is set to true, one more
\* monitor thread is started
enable_auto_shrink(enabled) ==
    /\ enabled => monitors < MaxMonitors
    /\ scaling_config' = [scaling_config EXCEPT !.auto_scale_enabled = enabled]
    /\ monitors' = IF enabled THEN monitors + 1 ELSE monitors
    /\ mresp' = MResponse("autoShrink", 200, "")
    /\ UNCHANGED <<workers_data, running>>
    /\ UNCHANGED <<orchVars, storageVars>>

total_workers == Cardinality(DOMAIN workers_data)
busy_workers ==
    Cardinality({ w \in DOMAIN workers_data : workers_data[w].status = "BUSY" })

\* seeded fault: utilization equal to scale_up_threshold counts as high
HighUtilizationOrEqual(config) ==
    busy_workers * 10 >= config.scale_up_threshold * total_workers

\* utilization < scale_down_threshold, the threshold in tenths: over counts
\* this small the float quotient busy / total and the float threshold
\* compare as the fractions do
LowUtilization(config) ==
    busy_workers * 10 < config.scale_down_threshold * total_workers
\* utilization > scale_up_threshold
HighUtilization(config) ==
    busy_workers * 10 > config.scale_up_threshold * total_workers

\* the count one pass of the loop scales to (the count it has when it does
\* not scale)
new_count(config) ==
    IF total_workers = 0 THEN config.current_workers
    ELSE IF /\ LowUtilization(config)
            /\ config.current_workers > config.min_workers
    THEN Max(config.current_workers - 1, config.min_workers)
    ELSE IF /\ HighUtilization(config)
            /\ config.current_workers < config.max_workers
    THEN Min(config.current_workers + 1, config.max_workers)
    ELSE config.current_workers

\* the monitor threads waiting for a scale command
running_monitors ==
    Cardinality({ i \in DOMAIN running : running[i].op = "monitor" })

\* a monitor thread finds the flag cleared and ends
MonitorEnds ==
    /\ monitors > running_monitors
    /\ ~scaling_config.auto_scale_enabled
    /\ monitors' = monitors - 1
    /\ UNCHANGED <<scaling_config, workers_data, mresp, running>>
    /\ UNCHANGED <<orchVars, storageVars>>

\* one pass of the loop of monitor_and_shrink: the return code of the
\* command is not read; an exception of subprocess.run skips the update
MonitorPass(outcome) ==
    /\ monitors > 0
    /\ scaling_config.auto_scale_enabled
    /\ new_count(scaling_config) # scaling_config.current_workers
    /\ scaling_config' =
           IF outcome = "raised" THEN scaling_config
           ELSE [scaling_config EXCEPT
                    !.current_workers = new_count(scaling_config),
                    !.desired_workers = new_count(scaling_config)]
    /\ mresp' = [MResponse("monitor", 0, "")
                   EXCEPT !.commands = <<new_count(scaling_config)>>]
    /\ UNCHANGED <<workers_data, monitors, running>>
    /\ UNCHANGED <<orchVars, storageVars>>

monitor_and_shrink ==
    \/ MonitorEnds
    \/ \E outcome \in Outcomes : MonitorPass(outcome)

\* ------------------------------- monitoring: the threads of the service
\* The development server handles every request in a thread of its own and
\* each monitor is a thread, so the handlers interleave where they wait for
\* the scale command: a handler is the step up to subprocess.run and the
\* step from its return.
MaxRunning == 2

Remove(seq, i) ==
    [k \in 1..(Len(seq) - 1) |-> IF k < i THEN seq[k] ELSE seq[k + 1]]

\* scale_workers up to subprocess.run: a refused count is answered at once,
\* an accepted one is written to desired_workers and the command starts
ScaleBegins(worker_count) ==
    /\ Len(running) < MaxRunning
    /\ LET target_count == IF worker_count = NoCount
                           THEN scaling_config.desired_workers
                           ELSE worker_count
           refused == Scaled(scaling_config, worker_count, "ok")
       IN  IF TooFew(scaling_config, target_count)
              \/ TooMany(scaling_config, target_count)
           THEN /\ mresp' = [MResponse("scaleTo", refused.code, refused.error)
                               EXCEPT !.worker_count = worker_count]
                /\ UNCHANGED <<scaling_config, running>>
           ELSE /\ scaling_config' =
                       [scaling_config EXCEPT !.desired_workers = target_count]
                /\ running' = Append(running,
                                     [op |-> "scaleTo",
                                      worker_count |-> worker_count,
                                      target_count |-> target_count])
                /\ UNCHANGED mresp
    /\ UNCHANGED <<workers_data, monitors>>
    /\ UNCHANGED <<orchVars, storageVars>>

\* scale_workers from the return of subprocess.run
ScaleReturns(i, outcome) ==
    /\ i \in DOMAIN running
    /\ running[i].op = "scaleTo"
    /\ scaling_config' =
           IF outcome = "ok"
           THEN [scaling_config EXCEPT
                    !.current_workers = running[i].target_count]
           ELSE scaling_config
    /\ mresp' = [MResponse("scaleTo", IF outcome = "ok" THEN 200 ELSE 500,
                           IF outcome = "ok" THEN ""
                           ELSE IF outcome = "nonzero"
                           THEN "Failed to scale workers" ELSE "exception")
                   EXCEPT !.worker_count = running[i].worker_count,
                          !.commands = <<running[i].target_count>>]
    /\ running' = Remove(running, i)
    /\ UNCHANGED <<workers_data, monitors>>
    /\ UNCHANGED <<orchVars, storageVars>>

\* one pass of monitor_and_shrink up to subprocess.run
MonitorBegins ==
    /\ Len(running) < MaxRunning
    /\ monitors > running_monitors
    /\ scaling_config.auto_scale_enabled
    /\ new_count(scaling_config) # scaling_config.current_workers
    /\ running' = Append(running,
                         [op |-> "monitor", worker_count |-> NoCount,
                          target_count |-> new_count(scaling_config)])
    /\ UNCHANGED <<scaling_config, workers_data, monitors, mresp>>
    /\ UNCHANGED <<orchVars, storageVars>>

\* the pass from the return of subprocess.run
MonitorReturns(i, outcome) ==
    /\ i \in DOMAIN running
    /\ running[i].op = "monitor"
    /\ scaling_config' =
           IF outcome = "raised" THEN scaling_config
           ELSE [scaling_config EXCEPT
                    !.current_workers = running[i].target_count,
                    !.desired_workers = running[i].target_count]
    /\ mresp' = [MResponse("monitor", 0, "")
                   EXCEPT !.commands = <<running[i].target_count>>]
    /\ running' = Remove(running, i)
    /\ UNCHANGED <<workers_data, monitors>>
    /\ UNCHANGED <<orchVars, storageVars>>

\* get_scaling_config answers with the dictionary as it is
get_scaling_config ==
    /\ mresp' = [op |-> "getConfig", code |-> 200, error |-> "",
                 worker_count |-> NoCount, target_count |-> NoCount,
                 commands |-> <<>>, config |-> scaling_config]
    /\ UNCHANGED <<scaling_config, workers_data, monitors, running>>
    /\ UNCHANGED <<orchVars, storageVars>>

\* --------------------------------------- monitoring: the worker activity
\* update_worker_metrics on the JSON body null: the worker is registered when
\* it is new, then merging the body raises and the entry is not stamped
update_worker_metrics_null(worker_id) ==
    /\ workers_data' =
           [w \in DOMAIN workers_data \cup {worker_id} |->
               IF w \in DOMAIN workers_data THEN workers_data[w]
               ELSE registered(now)]
    /\ mresp' = MResponse("updateWorker", 500, "Internal Server Error")
    /\ UNCHANGED <<scaling_config, monitors, running>>
    /\ UNCHANGED <<orchVars, storageVars>>

\* seconds after which a silent worker is reported OFFLINE
staleness_window == 30

\* the clock of the monitoring service and the steps it is observed at
MaxClock == 62
Delays == {29, 30, 31}

Elapse(seconds) ==
    /\ now + seconds <= MaxClock
    /\ now' = now + seconds
    /\ UNCHANGED <<registry, tasks, revoked, buckets, autoSaves, nextJob,
                   nextTask, resp>>
    /\ UNCHANGED <<storageVars, monVars>>

last_activity(worker_data, current_time) ==
    IF worker_data.updated_at # NoTime THEN worker_data.updated_at
    ELSE IF worker_data.registered_at # NoTime THEN worker_data.registered_at
    ELSE current_time

\* seeded fault: a worker silent for exactly the window is still active
is_active_at_window(worker_data, current_time) ==
    (current_time - last_activity(worker_data, current_time)) <= staleness_window

is_active(worker_data, current_time) ==
    (current_time - last_activity(worker_data, current_time)) < staleness_window

\* the entries of the workers in workers_data
workers_list(current_time) ==
    { [worker_id |-> w,
       status |-> IF is_active(workers_data[w], current_time)
                  THEN workers_data[w].status ELSE "OFFLINE",
       is_active |-> is_active(workers_data[w], current_time)] :
        w \in DOMAIN workers_data }

\* the three entries added when no worker is registered
mock_workers(current_time) ==
    { [worker_id |-> <<"tensorfleet-worker", i>>,
       status |-> IF i > 1 THEN "IDLE" ELSE "BUSY",
       is_active |-> TRUE] : i \in 1..3 }

\* the answer of get_worker_activity
ActivityResponse(workers) ==
    [op |-> "workerActivity", code |-> 200, error |-> "",
     worker_count |-> NoCount, target_count |-> NoCount, commands |-> <<>>,
     workers |-> workers,
     total_workers |-> Cardinality(workers),
     active_workers |-> Cardinality({ w \in workers : w.is_active }),
     busy_workers |-> Cardinality({ w \in workers : w.status = "BUSY" })]

get_worker_activity ==
    /\ mresp' = ActivityResponse(IF workers_list(now) = {}
                                 THEN mock_workers(now)
                                 ELSE workers_list(now))
    /\ UNCHANGED <<scaling_config, workers_data, monitors, running>>
    /\ UNCHANGED <<orchVars, storageVars>>

Init ==
    /\ registry = <<>>
    /\ tasks = <<>>
    /\ revoked = {}
    /\ buckets = {}
    /\ autoSaves = [j \in JobIds |-> 0]
    /\ nextJob = 0
    /\ nextTask = 0
    /\ now = 0
    /\ resp = Response("none", 0, 0, "", "")
    /\ models = {}
    /\ objects = {}
    /\ nextModel = 0
    /\ calls = [c \in Clients |-> NoCall]
    /\ sresp = SResponse(0, 0, 0, "")
    /\ listErrors = FALSE
    /\ threads = [j \in JobIds |-> [done |-> 0, printed |-> ""]]
    /\ scaling_config = InitialConfig
    /\ workers_data = <<>>
    /\ monitors = 0
    /\ running = <<>>
    /\ mresp = MResponse("none", 0, "")

\* the requests of the clients, and the clock
Handlers ==
    \/ Submit
    \/ \E job_id \in JobIds : GetStatus(job_id)
    \/ \E job_keys \in KeyOrders : ListJobs(job_keys)
    \/ \E job_id \in JobIds : Cancel(job_id)
    \/ Tick

\* the workers consuming the queue
Workers ==
    \/ \E t \in TaskIds : TaskStart(t)
    \/ \E t \in TaskIds, state \in {"SUCCESS", "FAILURE"} : TaskEnd(t, state)
    \/ \E t \in TaskIds : TaskRevoked(t)

Next ==
    \/ Handlers
    \/ Workers

\* the orchestrator with workers running
Spec == Init /\ [][Next]_vars

\* the orchestrator while no worker consumes the queue: every task stays
\* PENDING
SpecIdle == Init /\ [][Handlers]_vars

\* a request body with every required key
FullRequest ==
    [fields |-> {"model_type", "dataset_path", "job_name", "hyperparameters"},
     hyper |-> {"learning_rate", "batch_size", "optimizer"}]

\* the storage service and its clients, within one tick of the clock
StorageNext ==
    \/ \E c \in Clients, job_id \in JobIds, job_data \in JobData :
          \E mongo \in Mongo(job_id, job_data) :
            ClientPost(c, job_id, job_data, mongo)
    \/ \E c \in Clients, fault \in {"none", "minio", "mongo"} :
            SaveModel(c, fault)

SpecStorage == Init /\ [][StorageNext]_vars

\* jobs from submission to the end of their auto-save threads: accepted
\* submissions, status queries, cancellations, the workers, and the threads
\* calling the storage service
LiveNext ==
    \/ nextJob < MaxLiveJobs /\ SubmitValid(FullRequest, "none")
    \/ \E job_id \in JobIds : GetStatus(job_id)
    \/ \E job_id \in JobIds : Cancel(job_id)
    \/ Workers
    \/ \E job_id \in JobIds : auto_save_model(job_id)

SpecLive == Init /\ [][LiveNext]_vars

\* the scale requests and the configuration updates
ScalingNext ==
    \/ \E worker_count \in Counts \cup {NoCount}, outcome \in Outcomes :
            scale_workers(worker_count, outcome)
    \/ \E worker_count \in Counts \cup {NoCount}, first, second \in Outcomes :
            \/ scale_up_workers(worker_count, first, second)
            \/ scale_down_workers(worker_count, first, second)
    \/ \E op \in {"scaleTo", "scaleUp", "scaleDown"}, code \in NoJsonCodes :
            NoJson(op, code)
    \/ \E key \in ConfigKeys \cup {"unknown"}, value \in Counts :
            update_scaling_config(key, value)

SpecScaling == Init /\ [][ScalingNext]_vars

\* the monitoring service: the scale requests (scale-up and scale-down with
\* an empty JSON body), the configuration updates, the workers reporting and
\* the monitor threads
MonNext ==
    \/ \E worker_count \in Counts \cup {NoCount}, outcome \in Outcomes :
            scale_workers(worker_count, outcome)
    \/ \E first, second \in Outcomes :
            \/ scale_up_workers(NoCount, first, second)
            \/ scale_down_workers(NoCount, first, second)
    \/ \E key \in ConfigKeys \cup {"unknown"}, value \in Counts :
            update_scaling_config(key, value)
    \/ \E enabled \in BOOLEAN : enable_auto_shrink(enabled)
    \/ \E worker_id \in WorkerIds, status \in {"", "BUSY", "IDLE"} :
            update_worker_metrics(worker_id, status)
    \/ monitor_and_shrink

SpecMon == Init /\ [][MonNext]_vars

\* the workers reporting, the clock, and the worker activity view
FleetNext ==
    \/ \E worker_id \in WorkerIds, status \in {"", "BUSY", "IDLE"} :
            update_worker_metrics(worker_id, status)
    \/ \E worker_id \in WorkerIds : update_worker_metrics_null(worker_id)
    \/ \E seconds \in Delays : Elapse(seconds)
    \/ get_worker_activity

SpecFleet == Init /\ [][FleetNext]_vars

\* the threads of the monitoring service: scale requests, monitor threads
\* and readers, interleaved at the scale command
ThreadsNext ==
    \/ \E worker_count \in Counts \cup {NoCount} : ScaleBegins(worker_count)
    \/ \E i \in 1..MaxRunning, outcome \in Outcomes : ScaleReturns(i, outcome)
    \/ \E enabled \in BOOLEAN : enable_auto_shrink(enabled)
    \/ \E worker_id \in WorkerIds, status \in {"BUSY", "IDLE"} :
            update_worker_metrics(worker_id, status)
    \/ MonitorBegins
    \/ \E i \in 1..MaxRunning, outcome \in Outcomes :
            MonitorReturns(i, outcome)
    \/ MonitorEnds
    \/ get_scaling_config

SpecThreads == Init /\ [][ThreadsNext]_vars

\* the autoscale decision over worker tables of every size up to MaxTotal:
\* the tables update_worker_metrics builds, the configurations
\* update_scaling_config leaves, one monitor thread started
MaxTotal == 10
Thresholds == {3, 8}
Tables ==
    { [w \in 1..total |->
          [status |-> IF w <= busy THEN "BUSY" ELSE "IDLE",
           registered_at |-> 0, updated_at |-> 0]] :
        total \in 0..MaxTotal, busy \in 0..MaxTotal }
Configs ==
    { [InitialConfig EXCEPT !.current_workers = c[1], !.desired_workers = c[1],
                            !.min_workers = c[2], !.max_workers = c[3],
                            !.scale_down_threshold = c[4],
                            !.scale_up_threshold = c[5],
                            !.auto_scale_enabled = c[6]] :
        c \in (1..MaxCount) \X {1, 2} \X {2, MaxCount}
                  \X Thresholds \X Thresholds \X BOOLEAN }

InitDecide ==
    /\ registry = <<>>
    /\ tasks = <<>>
    /\ revoked = {}
    /\ buckets = {}
    /\ autoSaves = [j \in JobIds |-> 0]
    /\ nextJob = 0
    /\ nextTask = 0
    /\ now = 0
    /\ resp = Response("none", 0, 0, "", "")
    /\ models = {}
    /\ objects = {}
    /\ nextModel = 0
    /\ calls = [c \in Clients |-> NoCall]
    /\ sresp = SResponse(0, 0, 0, "")
    /\ listErrors = FALSE
    /\ threads = [j \in JobIds |-> [done |-> 0, printed |-> ""]]
    /\ scaling_config \in Configs
    /\ workers_data \in Tables
    /\ monitors = 1
    /\ running = <<>>
    /\ mresp = MResponse("none", 0, "")

SpecDecide == InitDecide /\ [][monitor_and_shrink]_vars

\* ================================================================ claims
Terminal == {"COMPLETED", "FAILED", "CANCELLED"}

\* C1: for every job, the auto-save workflow is started at most once,
\* however many getStatus calls find the job's task in state success.
C1_AutoSaveAtMostOnce ==
    \A j \in JobIds : autoSaves[j] <= 1

\* C2: CANCELLED is final: once cancel has succeeded for a job, its stored
\* status is CANCELLED and every later getStatus reports CANCELLED, whatever
\* state the queue reports for its task.
C2_CancelledIsFinal ==
    \A j \in DOMAIN registry :
        registry[j].cancelled_at # NoTime =>
            /\ registry[j].status = "CANCELLED"
            /\ (resp.op = "getStatus" /\ resp.job_id = j) => resp.status = "CANCELLED"

\* C3: COMPLETED and FAILED are final: no operation changes a stored status
\* COMPLETED or FAILED to another value, cancel included.
C3_CompletedFailedFinal ==
    [][\A j \in DOMAIN registry :
          registry[j].status \in {"COMPLETED", "FAILED"} =>
              registry'[j].status = registry[j].status]_vars

\* C4: a submit with every required field present that is accepted returns
\* a job id no earlier submit returned, enqueues exactly one task and
\* persists a record with status QUEUED and that task's handle; a getStatus
\* issued right after it, the task still pending, reports QUEUED.
C4_SubmitCreatesQueuedJob ==
    [][/\ (resp'.op = "submit" /\ SubmitValid(resp'.body, "none")) =>
            LET id == resp'.job_id
                new == DOMAIN tasks' \ DOMAIN tasks
            IN  /\ resp'.op = "submit" /\ resp'.code = 202
                /\ resp'.status = "QUEUED"
                /\ id \notin DOMAIN registry
                /\ DOMAIN registry' = DOMAIN registry \cup {id}
                /\ \A j \in DOMAIN registry : registry'[j] = registry[j]
                /\ Cardinality(new) = 1
                /\ \A t \in DOMAIN tasks : tasks'[t] = tasks[t]
                /\ registry'[id].status = "QUEUED"
                /\ registry'[id].task_id \in new
                /\ tasks'[registry'[id].task_id] = "PENDING"
       /\ \A j \in JobIds :
            (/\ resp.op = "submit" /\ resp.code = 202 /\ resp.job_id = j
             /\ GetStatusFound(j)
             /\ tasks[registry[j].task_id] = "PENDING") =>
                /\ resp'.code = 200 /\ resp'.job_id = j
                /\ resp'.status = "QUEUED"
                /\ registry'[j].status = "QUEUED"]_vars

\* two jobs were accepted and a getStatus has just reported the second QUEUED
C4_Witness ==
    /\ DOMAIN registry = {1, 2}
    /\ registry[1].task_id # registry[2].task_id
    /\ resp.op = "getStatus" /\ resp.job_id = 2 /\ resp.status = "QUEUED"

\* the required fields in the order the claim gives them
ClaimedOrder ==
    <<"model_type", "dataset_path", "job_name", "hyperparameters",
      "learning_rate", "batch_size", "optimizer">>

\* the fields a request body has
FieldsOf(req) ==
    req.fields \cup (IF "hyperparameters" \in req.fields THEN req.hyper ELSE {})

Lacking(req) == \E i \in DOMAIN ClaimedOrder : ClaimedOrder[i] \notin FieldsOf(req)

FirstLacking(req) ==
    ClaimedOrder[CHOOSE i \in DOMAIN ClaimedOrder :
                    /\ ClaimedOrder[i] \notin FieldsOf(req)
                    /\ \A k \in 1..(i - 1) : ClaimedOrder[k] \in FieldsOf(req)]

\* the validation messages that name a field
Naming(field) ==
    {"Missing required field: " \o field, "Missing hyperparameter: " \o field}
        \cup (IF field = "hyperparameters" THEN {"Missing hyperparameters"} ELSE {})

\* C5: a submit that lacks a required field fails with a validation error
\* naming the first missing field, in the order model_type, dataset_path,
\* job_name, hyperparameters, learning_rate, batch_size, optimizer, and
\* changes nothing: no record, no namespace, no task.
C5_InvalidSubmitRejected ==
    [][(/\ resp'.op = "submit"
        /\ Lacking(resp'.body)
        /\ SubmitRequest(resp'.body)) =>
            /\ resp'.code = 400
            /\ resp'.error \in Naming(FirstLacking(resp'.body))
            /\ UNCHANGED <<registry, tasks, revoked, buckets, autoSaves,
                           nextJob, nextTask>>]_vars

\* a submit was refused for its last hyperparameter while a job exists
C5_Witness ==
    /\ resp.op = "submit" /\ resp.code = 400
    /\ resp.error = "Missing hyperparameter: optimizer"
    /\ DOMAIN registry # {}

\* C6: when provisioning one of the two namespaces of a new job fails,
\* submit reports a storage error and creates no job: no record is
\* persisted and no task is enqueued, whichever namespace failed.
C6_ProvisioningFailureCreatesNothing ==
    [][(/\ nextJob' = nextJob + 1
        /\ ~({<<"models", nextJob'>>, <<"checkpoints", nextJob'>>} \subseteq buckets')) =>
            /\ resp'.op = "submit" /\ resp'.code = 500
            /\ resp'.error = "Failed to create storage buckets"
            /\ registry' = registry
            /\ tasks' = tasks /\ nextTask' = nextTask]_vars

\* the first submit failed on the models namespace, the second on the
\* checkpoints namespace
C6_Witness ==
    /\ nextJob = 2
    /\ buckets = {<<"models", 2>>}
    /\ resp.op = "submit" /\ resp.code = 500
    /\ registry = <<>> /\ tasks = <<>>

\* C7: getStatus and cancel on a job id with no record fail with NotFound
\* and change nothing: no record, no queue query, no revoke, no auto-save.
C7_NotFoundChangesNothing ==
    [][\A j \in JobIds :
          (j \notin DOMAIN registry /\ (GetStatus(j) \/ Cancel(j))) =>
              /\ resp'.code = 404 /\ resp'.error = "Job not found"
              /\ resp'.queried = {}
              /\ UNCHANGED <<registry, tasks, revoked, buckets, autoSaves>>]_vars

\* cancel was refused for a job id whose submit had enqueued a task and then
\* failed to write the record
C7_Witness ==
    /\ resp.op = "cancel" /\ resp.code = 404
    /\ resp.job_id \notin DOMAIN registry
    /\ resp.job_id <= nextJob
    /\ DOMAIN tasks # {}

\* C8: when getStatus sees queue state success for a job not yet terminal it
\* reports COMPLETED and the stored record then has status COMPLETED and a
\* completed_at; later getStatus calls report that same completed_at.
C8_SuccessStampsCompletedAt ==
    [][\A j \in JobIds :
          (GetStatusFound(j) /\ tasks[registry[j].task_id] = "SUCCESS") =>
              /\ registry[j].status \notin Terminal =>
                    /\ resp'.status = "COMPLETED"
                    /\ registry'[j].status = "COMPLETED"
                    /\ registry'[j].completed_at # NoTime
              /\ registry[j].status = "COMPLETED" =>
                    resp'.completed_at = registry[j].completed_at]_vars

\* C9: when getStatus sees queue state failure for a job not yet terminal it
\* reports FAILED with the error detail and the stored record then has
\* status FAILED and a failed_at.
C9_FailureStampsFailedAt ==
    [][\A j \in JobIds :
          (/\ GetStatusFound(j)
           /\ tasks[registry[j].task_id] = "FAILURE"
           /\ registry[j].status \notin Terminal) =>
              /\ resp'.status = "FAILED" /\ resp'.error # ""
              /\ registry'[j].status = "FAILED"
              /\ registry'[j].failed_at # NoTime]_vars

\* every record listed once, newest first
ListedNewestFirst(jobs, total) ==
    /\ total = Cardinality(DOMAIN registry)
    /\ Len(jobs) = total
    /\ {jobs[i].job_id : i \in DOMAIN jobs} = DOMAIN registry
    /\ \A i, k \in DOMAIN jobs :
          /\ jobs[i].created_at = registry[jobs[i].job_id].created_at
          /\ i < k => jobs[i].created_at >= jobs[k].created_at

\* C10 as stated: listJobs returns every job once, newest first, jobs with
\* equal created_at in the order they were inserted (job ids are handed out
\* in insertion order); total is the number of records.
C10_TiesInInsertionOrder ==
    resp.op = "listJobs" =>
        /\ ListedNewestFirst(resp.jobs, resp.total)
        /\ \A i, k \in DOMAIN resp.jobs :
              (i < k /\ resp.jobs[i].created_at = resp.jobs[k].created_at) =>
                  resp.jobs[i].job_id < resp.jobs[k].job_id

\* the place of a job id in the key scan
Position(job_keys, job_id) == CHOOSE i \in DOMAIN job_keys : job_keys[i] = job_id

\* C10 as amended: listJobs returns every job once, newest first, jobs with
\* equal created_at in the order the registry's key scan returned them;
\* total is the number of records.
C10_TiesInKeyScanOrder ==
    [][\A job_keys \in KeyOrders :
          (resp'.op = "listJobs" /\ ListJobs(job_keys)) =>
              /\ ListedNewestFirst(resp'.jobs, resp'.total)
              /\ \A i, k \in DOMAIN resp'.jobs :
                    (i < k /\ resp'.jobs[i].created_at = resp'.jobs[k].created_at) =>
                        Position(job_keys, resp'.jobs[i].job_id)
                            < Position(job_keys, resp'.jobs[k].job_id)]_vars

\* two jobs created at different times were listed, the later one first
C10_Witness ==
    /\ resp.op = "listJobs" /\ resp.total = 2
    /\ resp.jobs[1].job_id = 2
    /\ resp.jobs[1].created_at > resp.jobs[2].created_at

\* C11: listJobs reconciles as getStatus does: for every job and every state
\* the queue reports for its task, the status listJobs reports for the job is
\* the status getStatus reports for it in the same state.
C11_ListJobsReconcilesAsGetStatus ==
    \A j \in DOMAIN registry :
        ListedStatus(registry[j]) = ReconciledStatus(tasks[registry[j].task_id])

ValidBody(job_id) ==
    [keys |-> {"job_id", "status"}, job_id |-> job_id, status |-> "COMPLETED"]

C14_AtMostOneModelPerJob ==
    ~listErrors => \A j \in JobIds : Cardinality(find(j)) <= 1

\* C15: when a job's task succeeded and getStatus observed it, an auto-save
\* thread of the job that ended without an exception (the storage service
\* answered) was answered 201 or 200, and a model of the job is stored.
C15_AutoSaveStoresModel ==
    \A j \in JobIds :
        (threads[j].done > 0 /\ threads[j].printed # "raised") =>
            /\ threads[j].printed \in {"saved", "exists"}
            /\ find(j) # {}

\* C16: an auto-save failure never fails the status query: a getStatus of
\* an existing job whose task succeeded answers 200 with status COMPLETED and
\* stores COMPLETED without waiting for the storage service, and no step of
\* an auto-save thread, whatever its outcome, changes the response or the
\* job registry.
C16_AutoSaveNeverFailsStatus ==
    [][/\ \A j \in JobIds :
            (GetStatusFound(j) /\ tasks[registry[j].task_id] = "SUCCESS") =>
                /\ resp'.code = 200
                /\ resp'.status = "COMPLETED"
                /\ registry'[j].status = "COMPLETED"
                /\ UNCHANGED <<calls, sresp, threads, models>>
       /\ \A j \in JobIds :
            auto_save_model(j) => UNCHANGED <<registry, resp, tasks>>]_vars

\* the auto-save request of a job was rejected, another raised, and the
\* last status query of the job answered COMPLETED
C16_Witness ==
    \E j \in JobIds :
        /\ threads[j].done = 2
        /\ threads[j].printed = "raised"
        /\ sresp.job_id = j
        /\ sresp.code = 400
        /\ resp.op = "getStatus"
        /\ resp.job_id = j
        /\ resp.code = 200
        /\ resp.status = "COMPLETED"
        /\ registry[j].status = "COMPLETED"

\* the bounds of the configuration contain the count
WithinBounds(config, count) ==
    config.min_workers <= count /\ count <= config.max_workers

\* C17: scaleTo(target) fails with a validation error for every target below
\* min_workers and every target above max_workers, runs no scale command and
\* leaves the configuration as it was; for every target within the bounds
\* whose scale command succeeds, afterwards current_workers and
\* desired_workers are the target.
C17_ScaleToValidatesBounds ==
    [][\A outcome \in Outcomes :
          (/\ mresp'.op = "scaleTo"
           /\ mresp'.worker_count # NoCount
           /\ scale_workers(mresp'.worker_count, outcome)) =>
              LET target == mresp'.worker_count
              IN  /\ ~WithinBounds(scaling_config, target) =>
                        /\ mresp'.code = 400
                        /\ mresp'.commands = <<>>
                        /\ scaling_config' = scaling_config
                  /\ (WithinBounds(scaling_config, target) /\ outcome = "ok") =>
                        /\ mresp'.code = 200
                        /\ mresp'.commands = <<target>>
                        /\ scaling_config'.current_workers = target
                        /\ scaling_config'.desired_workers = target]_vars

\* a scaleTo of exactly min_workers succeeded, max_workers having been
\* lowered below the largest count a request carries
C17_Witness ==
    /\ mresp.op = "scaleTo"
    /\ mresp.code = 200
    /\ mresp.worker_count = scaling_config.min_workers
    /\ scaling_config.current_workers = scaling_config.min_workers
    /\ scaling_config.desired_workers = scaling_config.min_workers
    /\ scaling_config.max_workers < MaxCount
    /\ scaling_config.min_workers < scaling_config.max_workers

\* C18: when the scale command run by scaleTo fails (another return code
\* than 0, a timeout or an exception), scaleTo answers with an error and
\* desired_workers and current_workers have the values they had before.
C18_FailedScaleLeavesConfig ==
    [][\A outcome \in {"nonzero", "raised"} :
          (/\ mresp'.op = "scaleTo"
           /\ mresp'.commands # <<>>
           /\ scale_workers(mresp'.worker_count, outcome)) =>
              /\ mresp'.code = 500
              /\ scaling_config'.desired_workers = scaling_config.desired_workers
              /\ scaling_config'.current_workers = scaling_config.current_workers]_vars

\* C19: in every reachable state of the monitoring service current_workers
\* and desired_workers are within min_workers and max_workers.
C19_WorkersWithinBounds ==
    /\ WithinBounds(scaling_config, scaling_config.current_workers)
    /\ WithinBounds(scaling_config, scaling_config.desired_workers)

\* clamp(count, min_workers, max_workers)
Clamped(config, count) == Max(config.min_workers, Min(count, config.max_workers))

\* C20: a scaleUp whose scale commands succeed answers 200 and leaves
\* current_workers at clamp(current_workers + 1, min_workers, max_workers),
\* a scaleDown at clamp(current_workers - 1, min_workers, max_workers): one
\* more below max_workers, one less above min_workers, the same at the bound.
C20_ScaleUpDownByOne ==
    [][/\ (mresp'.op = "scaleUp" /\ scale_up_workers(NoCount, "ok", "ok")) =>
            /\ mresp'.code = 200
            /\ scaling_config'.current_workers =
                   Clamped(scaling_config, scaling_config.current_workers + 1)
       /\ (mresp'.op = "scaleDown" /\ scale_down_workers(NoCount, "ok", "ok")) =>
            /\ mresp'.code = 200
            /\ scaling_config'.current_workers =
                   Clamped(scaling_config, scaling_config.current_workers - 1)]_vars

\* utilization below scale_down_threshold and above scale_up_threshold, as
\* fractions: busy_workers / total_workers against tenths
Below(config) == busy_workers * 10 < config.scale_down_threshold * total_workers
Above(config) == busy_workers * 10 > config.scale_up_threshold * total_workers

\* the count an iteration decides on: one less, one more, or the same
Decision(config) ==
    IF total_workers = 0 THEN config.current_workers
    ELSE IF Below(config) /\ config.current_workers > config.min_workers
    THEN config.current_workers - 1
    ELSE IF Above(config) /\ config.current_workers < config.max_workers
    THEN config.current_workers + 1
    ELSE config.current_workers

\* C21: each autoscale iteration decides on utilization = busy_workers /
\* total_workers: nothing when total_workers is 0; one worker less when
\* utilization < scale_down_threshold and current_workers > min_workers; one
\* worker more when utilization > scale_up_threshold and current_workers <
\* max_workers; otherwise nothing. The comparisons are strict: 8 busy of 10
\* at threshold 0.8 triggers nothing, 9 busy of 10 triggers scale-up. An
\* iteration that decides nothing runs no command and changes nothing.
C21_AutoscaleDecision ==
    /\ [](/\ new_count(scaling_config) = Decision(scaling_config)
          /\ (/\ total_workers = 10 /\ busy_workers = 8
              /\ scaling_config.scale_up_threshold = 8) =>
                    new_count(scaling_config) <= scaling_config.current_workers
          /\ (/\ total_workers = 10 /\ busy_workers = 9
              /\ scaling_config.scale_up_threshold = 8
              /\ scaling_config.scale_down_threshold <= 8
              /\ scaling_config.current_workers < scaling_config.max_workers) =>
                    new_count(scaling_config) = scaling_config.current_workers + 1)
    /\ [][mresp'.op = "monitor" =>
            /\ Decision(scaling_config) # scaling_config.current_workers
            /\ mresp'.commands = <<Decision(scaling_config)>>
            /\ \/ scaling_config' = scaling_config
               \/ scaling_config' =
                     [scaling_config EXCEPT
                        !.current_workers = Decision(scaling_config),
                        !.desired_workers = Decision(scaling_config)]]_vars

\* with 9 busy workers of 10 and scale_up_threshold 0.8 an iteration has
\* scaled up from 2 workers to 3
C21_Witness ==
    /\ total_workers = 10 /\ busy_workers = 9
    /\ scaling_config.scale_up_threshold = 8
    /\ mresp.op = "monitor" /\ mresp.commands = <<3>>
    /\ scaling_config.current_workers = 3
    /\ scaling_config.desired_workers = 3

\* the time of the last heartbeat the table holds for a worker
Heartbeat(worker_data) ==
    Max(worker_data.registered_at, worker_data.updated_at)

\* C22: in the worker activity view a worker whose last heartbeat is 30
\* seconds or more in the past is reported OFFLINE whatever status it stored,
\* and a worker whose last heartbeat is less than 30 seconds in the past is
\* reported with its stored status (31 seconds: OFFLINE; 29 seconds: stored
\* status); no step removes a worker from the table.
C22_StaleWorkersOffline ==
    [][/\ get_worker_activity =>
            \A w \in DOMAIN workers_data :
                LET age == now - Heartbeat(workers_data[w])
                    reported == { e.status : e \in { x \in mresp'.workers :
                                                        x.worker_id = w } }
                IN  /\ age >= 30 => reported = {"OFFLINE"}
                    /\ age < 30 => reported = {workers_data[w].status}
                    /\ age = 31 => reported = {"OFFLINE"}
                    /\ age = 29 => reported = {workers_data[w].status}
       /\ DOMAIN workers_data \subseteq DOMAIN workers_data']_vars

\* a worker that reported BUSY exactly 30 seconds ago is listed OFFLINE and
\* is still in the table
C22_Witness ==
    /\ mresp.op = "workerActivity"
    /\ \E w \in DOMAIN workers_data :
          /\ workers_data[w].status = "BUSY"
          /\ now - workers_data[w].updated_at = 30
          /\ \E e \in mresp.workers : e.worker_id = w /\ e.status = "OFFLINE"

\* C23: at no time are two scale operations in progress at once: across the
\* auto-shrink requests, the autoscale iterations and the manual scale
\* requests at most one scale command is executing and at most one
\* autoscale loop is running.
C23_OneScaleOperationAtATime ==
    /\ Len(running) <= 1
    /\ monitors <= 1

\* C24: when the scale command of an autoscale iteration fails (another
\* return code than 0, a timeout or an exception), the iteration leaves
\* current_workers and desired_workers as they were, so the next iteration
\* decides from the same counts again.
C24_FailedIterationLeavesCounts ==
    [][\A outcome \in {"nonzero", "raised"} :
          (mresp'.op = "monitor" /\ MonitorPass(outcome)) =>
              /\ scaling_config'.current_workers = scaling_config.current_workers
              /\ scaling_config'.desired_workers = scaling_config.desired_workers
              /\ new_count(scaling_config') = new_count(scaling_config)]_vars

\* C25: current_workers and desired_workers change together: while a scaleTo
\* whose command succeeds is in progress, the scaling configuration (what
\* get_scaling_config answers and what an autoscale iteration reads) never
\* has desired_workers at the new target and current_workers at another
\* value.
C25_CountsChangeTogether ==
    [][\A i \in DOMAIN running :
          (running[i].op = "scaleTo" /\ ScaleReturns(i, "ok")) =>
              ~(/\ scaling_config.desired_workers = running[i].target_count
                /\ scaling_config.current_workers # running[i].target_count)]_vars

\* the statuses of a Job record
JobStatuses == {"QUEUED", "RUNNING", "COMPLETED", "FAILED", "CANCELLED"}

\* C26: in every reachable state the stored status of every Job record is
\* one of QUEUED, RUNNING, COMPLETED, FAILED, CANCELLED, whatever state the
\* queue reports for the job's task.
C26_StoredStatusInJobStatuses ==
    \A j \in DOMAIN registry : registry[j].status \in JobStatuses

\* C28: no orphan tasks: in every reachable state, also after a submit that
\* failed part-way, every task that was enqueued has a Job record holding
\* its task handle.
C28_NoOrphanTasks ==
    \A t \in DOMAIN tasks :
        \E j \in DOMAIN registry : registry[j].task_id = t

\* C27: the autoscale loop acts only while auto_scale_enabled is true and
\* runs whenever it is true: while the flag is false no autoscale iteration
\* changes current_workers or desired_workers, and while the flag is true
\* (by default at start-up included) an autoscale loop is running.
C27_LoopRunsWhileEnabled ==
    /\ [](scaling_config.auto_scale_enabled => monitors > 0)
    /\ [][(~scaling_config.auto_scale_enabled /\ mresp'.op = "monitor") =>
              /\ scaling_config'.current_workers = scaling_config.current_workers
              /\ scaling_config'.desired_workers = scaling_config.desired_workers]_vars

\* C29: the worker activity query reports the registered workers and
\* nothing else: it succeeds, total_workers is the number of workers that
\* have sent a heartbeat, every listed worker_id is a registered worker, and
\* with no registered worker the list is empty and total_workers and
\* busy_workers are 0.
C29_FleetViewIsTheTable ==
    [][get_worker_activity =>
          /\ mresp'.code = 200
          /\ mresp'.total_workers = Cardinality(DOMAIN workers_data)
          /\ \A e \in mresp'.workers : e.worker_id \in DOMAIN workers_data
          /\ workers_data = <<>> =>
                /\ mresp'.workers = {}
                /\ mresp'.total_workers = 0
                /\ mresp'.busy_workers = 0]_vars

\* C30: the autoscale loop and the worker activity view agree on the busy
\* workers of a table with registered workers: the busy count the loop
\* computes its utilization from is the busy_workers the view reports at
\* the same time, so a worker the view reports OFFLINE is not counted busy.
C30_LoopAndViewAgreeOnBusy ==
    [][(get_worker_activity /\ workers_data # <<>>) =>
          mresp'.busy_workers = busy_workers]_vars
====
